---- MODULE Spec2Model ----
(***************************************************************************)
(* Model of the event-driven simulation engine EventSimulation             *)
(* (packages/simullm/lib/simulation.ts).                                   *)
(*                                                                         *)
(* JavaScript runs one piece of synchronous code to completion at a time.  *)
(* The model keeps the engine's call stack in `stack`: while it is not     *)
(* empty only the code of the top frame can take a step.  When it is empty *)
(* control is outside the engine and the event loop (or the calling code)  *)
(* picks what runs next: a public dispatch call, an exit() call, a timer   *)
(* callback, the continuation of a suspended handler, or the continuation  *)
(* of a drain loop (processActionQueue) after one of its two awaits.       *)
(*                                                                         *)
(* Agent handlers and shouldExit are caller code: a handler is a           *)
(* nondeterministic sequence of the operations a context offers, ending in *)
(* a return, a suspension (await) or a failure; shouldExit returns true or *)
(* false or throws.                                                        *)
(***************************************************************************)
EXTENDS Integers, Sequences, FiniteSets, TLC

(* ----------------------------- bounds --------------------------------- *)
NumAgents == 2      \* registered agents, in registration order 1..NumAgents
MaxActions == 3     \* dispatch calls (public and context.dispatch) in a run
MaxTimers == 1      \* timers set by handlers in a run
MaxSuspends == 2    \* handler invocations that await in a run
MaxUpdates == 1     \* state updates (global and internal) in a run
MaxDefs == 3        \* agent definitions in a config given to createSimulation
MaxTurns == 3       \* largest maxTurns given to the legacy runSimulation
MaxNodes == 2       \* nodes in a config given to the legacy runSimulation

Agents == 1..NumAgents
Absent == -1        \* `undefined`: an agent without internal state

VARIABLES
    globalState,          \* this.globalState
    agentInternalStates,  \* this.agentInternalStates (Absent = no entry)
    actionQueue,          \* this.actionQueue
    isProcessing,         \* this.isProcessing
    actionCount,          \* this.actionCount
    hasExited,            \* this.hasExited
    exitPromise,          \* state of this.exitPromise: "pending" / "resolved"
    drains,               \* the calls of processActionQueue made so far
    inv,                  \* the handler invocations made so far
    stack,                \* the engine's synchronous call stack
    timers,               \* pending timer callbacks that call context.dispatch
    timersSet,            \* number of timers set so far
    dispatched,           \* number of dispatch calls made (public + context)
    exitCalls,            \* the awaitables the exit() calls have returned
    globalUpdates,        \* history: number of updateGlobalState calls made
    call,                 \* the call of a factory / pure function under study
    result,               \* what that call returned ("pending" before it ran)
    dequeued,             \* history: actions removed from the queue, in order
    barrier,              \* history: actions whose Promise.all was fulfilled
    evaluated,            \* history: actions shouldExit was evaluated for
    discarded,            \* history: actions cleared from the queue by an exit
    dropped               \* history: actions ignored by dispatch after exit

engine == <<globalState, agentInternalStates, actionQueue, isProcessing,
            actionCount, hasExited, exitPromise>>
api == <<call, result>>
history == <<dequeued, barrier, evaluated, discarded, dropped>>
vars == <<globalState, agentInternalStates, actionQueue, isProcessing,
          actionCount, hasExited, exitPromise, drains, inv, stack, timers,
          timersSet, dispatched, exitCalls, globalUpdates, dequeued, barrier,
          evaluated, discarded, dropped, call, result>>

(* --------------------------- data helpers ----------------------------- *)
\* variant: the action is put at the front of the queue (unshift)
PushFront(q, a) == <<a>> \o q

\* Array.prototype.push
Push(q, a) == Append(q, a)

\* variant: the element taken is the last one
ShiftLast(q) == q[Len(q)]

\* Array.prototype.shift: the element removed and the remaining queue
ShiftHead(q) == Head(q)
ShiftRest(q) == Tail(q)

Range(s) == {s[i] : i \in 1..Len(s)}
Last(s) == s[Len(s)]
Pop(s) == SubSeq(s, 1, Len(s) - 1)

DrainFrame(d) == [k |-> "drain", i |-> d]
HandlerFrame(h) == [k |-> "handler", i |-> h]
Top == stack[Len(stack)]
Outside == stack = <<>>
InDrain(d) == stack # <<>> /\ Top = DrainFrame(d)
InHandler(h) == stack # <<>> /\ Top = HandlerFrame(h)

(* ------------------------------ Init ---------------------------------- *)
\* config.agents: the first agent is created with an initial internal state,
\* the others without one
initialInternalState(id) == IF id = 1 THEN 0 ELSE Absent

\* variant: the constructor registers the agents without their initial
\* internal state
NoInternalState(id) == Absent

\* config.agents of the simulation under study: the i-th definition has id i
SuppliedAgents ==
    [i \in Agents |-> [id |-> i, initialInternalState |-> initialInternalState(i)]]

\* A JavaScript Map: the entries in insertion order.  Map.prototype.set
\* replaces the value of a key that is there, leaving the entry in its
\* place, and appends a new entry otherwise; Map.prototype.get returns
\* undefined for a key that is not there.
MapHas(m, k) == \E i \in 1..Len(m) : m[i].key = k
MapSet(m, k, v) ==
    IF MapHas(m, k)
    THEN [i \in 1..Len(m) |-> IF m[i].key = k THEN [key |-> k, value |-> v] ELSE m[i]]
    ELSE Append(m, [key |-> k, value |-> v])
MapGet(m, k) ==
    IF MapHas(m, k) THEN m[CHOOSE i \in 1..Len(m) : m[i].key = k].value ELSE Absent
MapKeys(m) == [i \in 1..Len(m) |-> m[i].key]

\* constructor: `for (const agent of config.agents)` from the i-th
\* definition on; an agent is stored as the index of its definition in
\* config.agents, which tells whose handler (onAction) it carries
RECURSIVE RegisterAgents(_, _, _, _)
RegisterAgents(defs, i, agents, states) ==
    IF i > Len(defs)
    THEN [st |-> "returned", agents |-> agents, agentInternalStates |-> states]
    ELSE RegisterAgents(defs, i + 1,
             MapSet(agents, defs[i].id, i),
             IF defs[i].initialInternalState # Absent
             THEN MapSet(states, defs[i].id, defs[i].initialInternalState)
             ELSE states)

\* createSimulation(config): the agents and agentInternalStates maps of the
\* new EventSimulation
createSimulation(defs) == RegisterAgents(defs, 1, <<>>, <<>>)

\* constructor: `if (agent.initialInternalState !== undefined)
\* this.agentInternalStates.set(agent.id, agent.initialInternalState)`
ConstructedInternalState(id) ==
    MapGet(createSimulation(SuppliedAgents).agentInternalStates, id)

\* the engine's fields after the constructor and the field initialisers
EngineInit ==
    /\ globalState = 0
    /\ agentInternalStates = [id \in Agents |-> ConstructedInternalState(id)]
    /\ actionQueue = <<>>
    /\ isProcessing = FALSE
    /\ actionCount = 0
    /\ hasExited = FALSE
    /\ exitPromise = "pending"
    /\ drains = <<>>
    /\ inv = <<>>
    /\ stack = <<>>
    /\ timers = 0
    /\ timersSet = 0
    /\ dispatched = 0
    /\ exitCalls = {}
    /\ globalUpdates = 0
    /\ dequeued = <<>>
    /\ barrier = <<>>
    /\ evaluated = <<>>
    /\ discarded = {}
    /\ dropped = {}

\* constructor: the state after createSimulation(config)
Init ==
    /\ EngineInit
    /\ call = [fn |-> "createSimulation", agents |-> SuppliedAgents]
    /\ result = createSimulation(SuppliedAgents)

(* ------------------------- caller-supplied code ----------------------- *)
\* The transform handed to updateGlobalState / updateInternalState:
\* (s) => (s ?? 0) + 1
ApplyTransform(s) == IF s = Absent THEN 1 ELSE s + 1

\* Every update adds 1, so the states tell how many updates were made; the
\* handlers make at most MaxUpdates of them in a run.
RECURSIVE SumOf(_, _)
SumOf(f, S) ==
    IF S = {} THEN 0
    ELSE LET x == CHOOSE y \in S : TRUE
         IN (IF f[x] = Absent THEN 0 ELSE f[x]) + SumOf(f, S \ {x})
UpdatesMade == globalState + SumOf(agentInternalStates, Agents)
MayUpdate == UpdatesMade < MaxUpdates

\* What a call of shouldExit can do: return true, return false, or throw.
ExitResults == {"true", "false", "throw"}

(* ------------------------- getters (pure reads) ----------------------- *)
getGlobalState == globalState
getAgentInternalState(id) ==
    IF id \in Agents THEN agentInternalStates[id] ELSE Absent
\* variant: the result is built from the entries of agentInternalStates, so
\* an agent without internal state has no entry
getStoredAgentStates ==
    [id \in {a \in Agents : agentInternalStates[a] # Absent} |->
        agentInternalStates[id]]

getAllAgentStates == [id \in Agents |-> agentInternalStates[id]]
getActionCount == actionCount
hasSimulationExited == hasExited

\* variant: exit() builds a new promise on every call
FreshAwaitable == "fresh"

\* exit(): the promise the call returns
ExitAwaitable == "exitPromise"

\* state of the awaitable an exit() call returned
AwaitableState(p) == IF p = "exitPromise" THEN exitPromise ELSE "pending"

(* ------------------------- promises of a drain ------------------------ *)
\* the handler invocations drain d made for the action it is processing
InvocationsOf(d) ==
    {h \in 1..Len(inv) : inv[h].drain = d /\ inv[h].aid = drains[d].action}

\* variant: the loop goes on as soon as one handler has settled (Promise.race)
PromiseRace(S) ==
    IF "rejected" \in S THEN "rejected"
    ELSE IF "fulfilled" \in S \/ S = {} THEN "fulfilled"
    ELSE "pending"

\* Promise.all over the handlers' promises: rejected as soon as one is
\* rejected, fulfilled when all are fulfilled, pending otherwise.
PromiseAll(S) ==
    IF "rejected" \in S THEN "rejected"
    ELSE IF S \subseteq {"fulfilled"} THEN "fulfilled"
    ELSE "pending"

AllSettled(d) == PromiseAll({inv[h].st : h \in InvocationsOf(d)})

\* a drain's continuation after Promise.all is a microtask: it runs before
\* any timer callback
MicrotaskPending ==
    \E d \in 1..Len(drains) : drains[d].pc = "awaitAll" /\ AllSettled(d) # "pending"

\* A drain loop is active from the call of processActionQueue until the call
\* has returned or thrown.
ActiveDrains == {d \in 1..Len(drains) : drains[d].pc \notin {"done", "failed"}}

\* The promise processActionQueue returned for drain d; a public dispatch
\* that started d awaits it, so it is that call's outcome, while
\* context.dispatch lets it go.
DrainPromise(d) ==
    IF drains[d].pc = "done" THEN "resolved"
    ELSE IF drains[d].pc = "failed" THEN "rejected"
    ELSE "pending"

(* ------------------------- processActionQueue ------------------------- *)
\* The head of `while (this.actionQueue.length > 0)` of drain d, with the
\* queue q, the drain records ds and the call stack stk: either the front
\* action is shifted and the fan-out over the agents begins, or the loop
\* ends and isProcessing is cleared.
LoopHead(d, q, ds, stk) ==
    IF Len(q) > 0
    THEN /\ actionQueue' = ShiftRest(q)
         /\ drains' = [ds EXCEPT ![d].pc = "fanout", ![d].action = ShiftHead(q), ![d].next = 1]
         /\ stack' = Append(stk, DrainFrame(d))
         /\ dequeued' = Append(dequeued, ShiftHead(q))
         /\ isProcessing' = TRUE
    ELSE /\ actionQueue' = q
         /\ drains' = [ds EXCEPT ![d].pc = "done"]
         /\ stack' = stk
         /\ dequeued' = dequeued
         /\ isProcessing' = FALSE

\* A call of processActionQueue with the queue q: isProcessing is set and the
\* loop is entered.
ProcessActionQueue(q, caller) ==
    LoopHead(Len(drains) + 1, q,
             Append(drains, [pc |-> "start", action |-> 0, next |-> 1, by |-> caller]),
             stack)

\* variants of the tests below: always true, never true
AlwaysStartDrain == TRUE
NeverStartDrain == FALSE
NeverIgnored == FALSE
\* variants: the queue is not cleared on exit; the count is not incremented
KeepQueue(q) == q
SameCount(c) == c
\* variant: an action is counted twice
CountTwice(c) == c + 2

\* `if (!this.isProcessing)` in dispatch
MayStartDrain == ~isProcessing

\* `if (!this.isProcessing)` in context.dispatch
ContextMayStartDrain == ~isProcessing

\* this.actionQueue.length = 0
ClearQueue(q) == <<>>

\* this.actionCount++
NextCount(c) == c + 1

\* `if (this.hasExited) return;` of the public dispatch
DispatchIgnored == hasExited

\* context.dispatch has no such test
ContextDispatchIgnored == FALSE

\* EventSimulation.dispatch(a), as far as it runs synchronously
Dispatch(a) ==
    /\ dispatched' = dispatched + 1
    /\ IF DispatchIgnored
       THEN /\ dropped' = dropped \cup {a}
            /\ UNCHANGED <<actionQueue, isProcessing, drains, stack, dequeued>>
       ELSE /\ dropped' = dropped
            /\ IF MayStartDrain
               THEN ProcessActionQueue(Push(actionQueue, a), "dispatch")
               ELSE /\ actionQueue' = Push(actionQueue, a)
                    /\ UNCHANGED <<isProcessing, drains, stack, dequeued>>
    /\ UNCHANGED <<globalState, agentInternalStates, actionCount, hasExited,
                   exitPromise, inv, exitCalls, globalUpdates, api, barrier, evaluated, discarded>>

\* the dispatch function of a context (createContext)
ContextDispatch(a) ==
    /\ dispatched' = dispatched + 1
    /\ IF ContextDispatchIgnored
       THEN /\ dropped' = dropped \cup {a}
            /\ UNCHANGED <<actionQueue, isProcessing, drains, stack, dequeued>>
       ELSE /\ dropped' = dropped
            /\ IF ContextMayStartDrain
               THEN ProcessActionQueue(Push(actionQueue, a), "context.dispatch")
               ELSE /\ actionQueue' = Push(actionQueue, a)
                    /\ UNCHANGED <<isProcessing, drains, stack, dequeued>>
    /\ UNCHANGED <<globalState, agentInternalStates, actionCount, hasExited,
                   exitPromise, inv, exitCalls, globalUpdates, api, barrier, evaluated, discarded>>

\* variant: the fan-out goes through the agents from the last one supplied
\* to the first
ReverseAgent(n) == NumAgents + 1 - n

\* the n-th agent of the iteration over this.agents: a Map iterates in
\* insertion order, the order in which the constructor registered the ids
RegisteredAgent(n) == MapKeys(createSimulation(SuppliedAgents).agents)[n]

\* variant: allAgents is built from the entries of agentInternalStates, so
\* an agent without internal state is left out
agentsWithState ==
    SelectSeq([i \in 1..NumAgents |->
                  [id |-> RegisteredAgent(i),
                   internalState |-> agentInternalStates[RegisteredAgent(i)]]],
              LAMBDA e : e.internalState # Absent)

\* `Array.from(this.agents.keys()).map(id => ({ id, internalState:
\* this.agentInternalStates.get(id) }))`
allAgents ==
    [i \in 1..NumAgents |->
        [id |-> RegisteredAgent(i),
         internalState |-> agentInternalStates[RegisteredAgent(i)]]]

\* variant: one context per agent is built at construction and handed to
\* every invocation
cachedContext(agentId) ==
    [globalState |-> 0,
     internalState |-> initialInternalState(agentId),
     allAgents |-> [i \in 1..NumAgents |->
                       [id |-> i, internalState |-> initialInternalState(i)]]]

(* --------------------- steps of the fan-out loop ---------------------- *)
\* what createContext(agentId) captures when it is called
createContext(agentId) ==
    [globalState |-> globalState,
     internalState |-> agentInternalStates[agentId],
     allAgents |-> allAgents]

\* for (const [agentId, agent] of this.agents): build the context and call
\* agent.onAction(action, context); the handler runs synchronously until it
\* returns, suspends or throws.
DrainInvoke(d) ==
    /\ InDrain(d)
    /\ drains[d].pc = "fanout"
    /\ drains[d].next <= NumAgents
    /\ inv' = Append(inv, [aid |-> drains[d].action,
                           agent |-> RegisteredAgent(drains[d].next),
                           drain |-> d, st |-> "running", first |-> TRUE,
                           context |-> createContext(RegisteredAgent(drains[d].next))])
    /\ drains' = [drains EXCEPT ![d].next = @ + 1]
    /\ stack' = Append(stack, HandlerFrame(Len(inv) + 1))
    /\ UNCHANGED <<engine, timers, timersSet, dispatched, exitCalls, globalUpdates, api, history>>

\* await Promise.all(promises): processActionQueue suspends and control
\* returns to whoever called it
DrainAwaitAll(d) ==
    /\ InDrain(d)
    /\ drains[d].pc = "fanout"
    /\ drains[d].next > NumAgents
    /\ drains' = [drains EXCEPT ![d].pc = "awaitAll"]
    /\ stack' = Pop(stack)
    /\ UNCHANGED <<engine, inv, timers, timersSet, dispatched, exitCalls, globalUpdates, api, history>>

\* a context is in use until its handler invocation has settled
NoContext ==
    [globalState |-> Absent, internalState |-> Absent, allAgents |-> <<>>]

(* ------------------------- steps of a handler ------------------------- *)
Running(h) == InHandler(h) /\ inv[h].st = "running"

\* variant: the updater is applied to the globalState field of the context,
\* the value read when the context was built
SnapshotGlobalState(h) == inv[h].context.globalState

\* `this.globalState` as read by the updateGlobalState closure when called
CurrentGlobalState(h) == globalState

\* this.globalState = updater(this.globalState)
SetGlobalState(h) ==
    /\ globalState' = ApplyTransform(CurrentGlobalState(h))
    /\ globalUpdates' = globalUpdates + 1
    /\ UNCHANGED <<api, agentInternalStates, actionQueue, isProcessing, actionCount,
                   hasExited, exitPromise, drains, inv, stack, timers, timersSet,
                   dispatched, exitCalls, history>>

\* context.updateGlobalState(updater)
updateGlobalState(h) ==
    /\ Running(h)
    /\ MayUpdate
    /\ SetGlobalState(h)

\* context.updateGlobalState(updater) called once more by a running handler
\* when the MaxUpdates updates have been made (a step of SpecUpdates only)
updateGlobalStateAgain(h) ==
    /\ Running(h)
    /\ UpdatesMade = MaxUpdates
    /\ SetGlobalState(h)

\* variant: every context writes the internal state of the first agent
FirstAgent(h) == 1

\* the agentId the closures of the context of invocation h were built with
ContextAgent(h) == inv[h].agent

\* context.updateInternalState(updater) of the context built for inv[h].agent
updateInternalState(h) ==
    /\ Running(h)
    /\ MayUpdate
    /\ agentInternalStates' =
           [agentInternalStates EXCEPT ![ContextAgent(h)] = ApplyTransform(@)]
    /\ UNCHANGED <<globalState, actionQueue, isProcessing, actionCount,
                   hasExited, exitPromise, drains, inv, stack, timers, timersSet,
                   dispatched, exitCalls, globalUpdates, api, history>>

\* context.dispatch(action) called by the handler itself
HandlerContextDispatch(h) ==
    /\ Running(h)
    /\ dispatched < MaxActions
    /\ ContextDispatch(dispatched + 1)
    /\ UNCHANGED <<timers, timersSet>>

\* simulation.dispatch(action) called by the handler (not awaited)
HandlerDispatch(h) ==
    /\ Running(h)
    /\ dispatched < MaxActions
    /\ Dispatch(dispatched + 1)
    /\ UNCHANGED <<timers, timersSet>>

\* setTimeout(() => context.dispatch(action), delay) in the handler
HandlerSetTimer(h) ==
    /\ Running(h)
    /\ timersSet < MaxTimers
    /\ timers' = timers + 1
    /\ timersSet' = timersSet + 1
    /\ UNCHANGED <<engine, drains, inv, stack, dispatched, exitCalls, globalUpdates, api, history>>

\* the handler returns (or its async body ends): its promise is fulfilled
HandlerReturn(h) ==
    /\ Running(h)
    /\ inv' = [inv EXCEPT ![h].st = "fulfilled", ![h].context = NoContext]
    /\ stack' = Pop(stack)
    /\ UNCHANGED <<engine, drains, timers, timersSet, dispatched, exitCalls, globalUpdates, api, history>>

\* variant: the fan-out loop awaits each handler inside the loop, so a
\* handler that suspends suspends the loop as well
SuspendCaller(stk) == <<>>

\* the call agent.onAction(...) returns the handler's pending promise to its
\* caller, which pushes it and goes on with the loop
ReturnToCaller(stk) == Pop(stk)

\* the handler awaits something: it is suspended and control returns
\* (a handler awaits at most once)
HandlerSuspend(h) ==
    /\ Running(h)
    /\ inv[h].first
    /\ Cardinality({i \in 1..Len(inv) : ~inv[i].first}) < MaxSuspends
    /\ inv' = [inv EXCEPT ![h].st = "suspended", ![h].first = FALSE]
    /\ stack' = ReturnToCaller(stack)
    /\ UNCHANGED <<engine, drains, timers, timersSet, dispatched, exitCalls, globalUpdates, api, history>>

\* an async handler throws: the promise it returned is rejected
HandlerReject(h) ==
    /\ Running(h)
    /\ inv' = [inv EXCEPT ![h].st = "rejected", ![h].context = NoContext]
    /\ stack' = Pop(stack)
    /\ UNCHANGED <<engine, drains, timers, timersSet, dispatched, exitCalls, globalUpdates, api, history>>

\* a handler that is not an async function throws: the exception leaves
\* agent.onAction, the for loop and processActionQueue, whose promise is
\* rejected; isProcessing is left as it is.
HandlerThrow(h) ==
    /\ Running(h)
    /\ inv[h].first
    /\ Len(stack) >= 2
    /\ stack[Len(stack) - 1] = DrainFrame(inv[h].drain)
    /\ inv' = [inv EXCEPT ![h].st = "thrown", ![h].context = NoContext]
    /\ drains' = [drains EXCEPT ![inv[h].drain].pc = "failed"]
    /\ stack' = Pop(Pop(stack))
    /\ UNCHANGED <<engine, timers, timersSet, dispatched, exitCalls, globalUpdates, api, history>>

\* the continuation of a suspended handler runs
HandlerResume(h) ==
    /\ Outside
    /\ inv[h].st = "suspended"
    /\ inv' = [inv EXCEPT ![h].st = "running"]
    /\ stack' = <<HandlerFrame(h)>>
    /\ UNCHANGED <<engine, drains, timers, timersSet, dispatched, exitCalls, globalUpdates, api, history>>

(* ------------------ continuation of processActionQueue ---------------- *)
\* variant: the exit context carries the count before the increment
StaleExitContext(action, count) ==
    [globalState |-> globalState,
     agentStates |-> getAllAgentStates,
     lastAction |-> action,
     actionCount |-> count - 1]

\* the exit context built after an action's handlers have settled
ExitContext(action, count) ==
    [globalState |-> globalState,
     agentStates |-> getAllAgentStates,
     lastAction |-> action,
     actionCount |-> count]

\* variant: when Promise.all was rejected the global state is rolled back to
\* the initial one
DrainFailRestores(d) ==
    /\ Outside
    /\ drains[d].pc = "awaitAll"
    /\ AllSettled(d) = "rejected"
    /\ drains' = [drains EXCEPT ![d].pc = "failed"]
    /\ globalState' = 0
    /\ UNCHANGED <<agentInternalStates, actionQueue, isProcessing, actionCount,
                   hasExited, exitPromise, inv, stack, timers, timersSet,
                   dispatched, exitCalls, globalUpdates, api, history>>

\* Promise.all was rejected: the await throws and processActionQueue ends
\* with that error; nothing after the await runs.
DrainFail(d) ==
    /\ Outside
    /\ drains[d].pc = "awaitAll"
    /\ AllSettled(d) = "rejected"
    /\ drains' = [drains EXCEPT ![d].pc = "failed"]
    /\ UNCHANGED <<engine, inv, stack, timers, timersSet, dispatched, exitCalls, globalUpdates, api, history>>

\* variant: no `break`, the loop goes on to its yield after an exit
PcLoopsOn == "yield"

\* `break` after an exit: the loop is left and processActionQueue returns
PcAfterExit == "done"

\* variant: the loop yields after every action
AlwaysYield(q) == TRUE

\* `if (this.actionQueue.length > 0)` before the setTimeout(resolve, 0)
MoreQueued(q) == Len(q) > 0

\* Promise.all was fulfilled: the count is incremented and shouldExit is
\* evaluated (result r); on true the queue is cleared and the loop is left,
\* on false the loop yields (setTimeout 0) if actions are queued and ends
\* otherwise; a throw ends processActionQueue with the error.
DrainAdvance(d, r) ==
    /\ Outside
    /\ drains[d].pc = "awaitAll"
    /\ AllSettled(d) = "fulfilled"
    /\ actionCount' = NextCount(actionCount)
    /\ barrier' = Append(barrier, drains[d].action)
    /\ evaluated' = Append(evaluated, ExitContext(drains[d].action, actionCount'))
    /\ CASE r = "throw" ->
              /\ drains' = [drains EXCEPT ![d].pc = "failed"]
              /\ UNCHANGED <<actionQueue, hasExited, exitPromise, isProcessing, discarded>>
         [] r = "true" ->
              /\ actionQueue' = ClearQueue(actionQueue)
              /\ discarded' = discarded \cup (Range(actionQueue) \ Range(actionQueue'))
              /\ hasExited' = TRUE
              /\ exitPromise' = "resolved"
              /\ isProcessing' = FALSE
              /\ drains' = [drains EXCEPT ![d].pc = PcAfterExit]
         [] r = "false" ->
              /\ IF MoreQueued(actionQueue)
                 THEN /\ drains' = [drains EXCEPT ![d].pc = "yield"]
                      /\ isProcessing' = isProcessing
                 ELSE /\ drains' = [drains EXCEPT ![d].pc = "done"]
                      /\ isProcessing' = FALSE
              /\ UNCHANGED <<actionQueue, hasExited, exitPromise, discarded>>
    /\ UNCHANGED <<globalState, agentInternalStates, inv, stack, timers, timersSet,
                   dispatched, exitCalls, globalUpdates, api, dequeued, dropped>>

\* the setTimeout(resolve, 0) of the loop has fired: back to the loop head
DrainContinue(d) ==
    /\ Outside
    /\ drains[d].pc = "yield"
    /\ ~MicrotaskPending
    /\ LoopHead(d, actionQueue, drains, stack)
    /\ UNCHANGED <<globalState, agentInternalStates, actionCount, hasExited,
                   exitPromise, inv, timers, timersSet, dispatched, exitCalls, globalUpdates, api,
                   barrier, evaluated, discarded, dropped>>

(* ---------------------- calls from outside the engine ----------------- *)
\* simulation.dispatch(action) called by the application
PublicDispatch ==
    /\ Outside
    /\ dispatched < MaxActions
    /\ Dispatch(dispatched + 1)
    /\ UNCHANGED <<timers, timersSet>>

\* a timer set by a handler fires and calls context.dispatch(action)
TimerDispatch ==
    /\ Outside
    /\ ~MicrotaskPending
    /\ timers > 0
    /\ dispatched < MaxActions
    /\ timers' = timers - 1
    /\ timersSet' = timersSet
    /\ ContextDispatch(dispatched + 1)

\* variant: exit() is a cancellation primitive, it sets hasExited
ExitCallStops ==
    /\ Outside
    /\ exitCalls' = exitCalls \cup {ExitAwaitable}
    /\ hasExited' = TRUE
    /\ UNCHANGED <<globalState, agentInternalStates, actionQueue, isProcessing,
                   actionCount, exitPromise, drains, inv, stack, timers,
                   timersSet, dispatched, globalUpdates, api, history>>

\* simulation.exit() called by the application
ExitCall ==
    /\ Outside
    /\ exitCalls' = exitCalls \cup {ExitAwaitable}
    /\ UNCHANGED <<engine, drains, inv, stack, timers, timersSet, dispatched,
                   globalUpdates, api, history>>

Next ==
    \/ \E d \in 1..Len(drains) : DrainInvoke(d)
    \/ \E d \in 1..Len(drains) : DrainAwaitAll(d)
    \/ \E h \in 1..Len(inv) : updateGlobalState(h)
    \/ \E h \in 1..Len(inv) : updateInternalState(h)
    \/ \E h \in 1..Len(inv) : HandlerContextDispatch(h)
    \/ \E h \in 1..Len(inv) : HandlerDispatch(h)
    \/ \E h \in 1..Len(inv) : HandlerSetTimer(h)
    \/ \E h \in 1..Len(inv) : HandlerReturn(h)
    \/ \E h \in 1..Len(inv) : HandlerSuspend(h)
    \/ \E h \in 1..Len(inv) : HandlerReject(h)
    \/ \E h \in 1..Len(inv) : HandlerThrow(h)
    \/ \E h \in 1..Len(inv) : HandlerResume(h)
    \/ \E d \in 1..Len(drains) : DrainFail(d)
    \/ \E d \in 1..Len(drains), r \in ExitResults : DrainAdvance(d, r)
    \/ \E d \in 1..Len(drains) : DrainContinue(d)
    \/ PublicDispatch
    \/ TimerDispatch
    \/ ExitCall

Spec == Init /\ [][Next]_vars

\* The engine with handlers that may call updateGlobalState one more time
NextUpdates ==
    \/ Next
    \/ \E h \in 1..Len(inv) : updateGlobalStateAgain(h)
SpecUpdates == Init /\ [][NextUpdates]_vars

(* -------------------------- the public queries ------------------------ *)
\* The engine with an application (or a handler, through the simulation
\* object) that reads the engine with the public queries: one step calls
\* the five queries one after the other, getAgentInternalState with every id
\* of QueryIds.  The methods have no condition on the engine's state.
QueryNames == {"getGlobalState", "getAgentInternalState", "getAllAgentStates",
               "getActionCount", "hasSimulationExited"}
\* the ids getAgentInternalState is called with: the agents' and another one
QueryIds == Agents \cup {NumAgents + 1}
QueryResults ==
    [getGlobalState |-> getGlobalState,
     getAgentInternalState |-> [id \in QueryIds |-> getAgentInternalState(id)],
     getAllAgentStates |-> getAllAgentStates,
     getActionCount |-> getActionCount,
     hasSimulationExited |-> hasSimulationExited]

\* variant: a query counts as an action
QueriesCounted ==
    /\ call' = [fn |-> "queries", names |-> QueryNames]
    /\ result' = [st |-> "returned", value |-> QueryResults]
    /\ actionCount' = actionCount + 1
    /\ UNCHANGED <<globalState, agentInternalStates, actionQueue, isProcessing,
                   hasExited, exitPromise, drains, inv, stack, timers,
                   timersSet, dispatched, exitCalls, globalUpdates, history>>

\* the queries are called and return
QueryCalls ==
    /\ call' = [fn |-> "queries", names |-> QueryNames]
    /\ result' = [st |-> "returned", value |-> QueryResults]
    /\ UNCHANGED <<engine, drains, inv, stack, timers, timersSet, dispatched,
                   exitCalls, globalUpdates, history>>

NextQueries ==
    \/ Next
    \/ QueryCalls
SpecQueries == Init /\ [][NextQueries]_vars

(* ------------- synchronous handlers, awaited dispatch calls ----------- *)
\* The engine with handlers that are synchronous functions of (action,
\* context), a shouldExit that is a function of its exit context, and an
\* application that awaits every dispatch call before it makes the next.
\* What a handler does for an action, as the list of the context methods it
\* calls:
\*   idle     nothing
\*   count    context.updateGlobalState(s => s + 1)
\*   tally    context.updateInternalState(s => s + 1)
\*   once     updateGlobalState, if context.globalState is 0
\*   cascade  for the first action, context.dispatch(another action)
\*   relay    for the second action, context.dispatch(another action) and
\*            then context.updateGlobalState
\*   fail     for the second action, throw
HandlerKinds == {"idle", "count", "tally", "once", "cascade", "relay", "fail"}
HandlerBody(kind, action, context) ==
    CASE kind = "idle" -> <<>>
      [] kind = "count" -> <<"updateGlobalState">>
      [] kind = "tally" -> <<"updateInternalState">>
      [] kind = "once" ->
            IF context.globalState = 0 THEN <<"updateGlobalState">> ELSE <<>>
      [] kind = "cascade" -> IF action = 1 THEN <<"dispatch">> ELSE <<>>
      [] kind = "relay" ->
            IF action = 2 THEN <<"dispatch", "updateGlobalState">> ELSE <<>>
      [] kind = "fail" -> IF action = 2 THEN <<"throw">> ELSE <<>>

\* shouldExit: ({ actionCount }) => actionCount >= exitAt, or () => false
\* (exitAt = 0)
ExitPolicies == 0..MaxActions
ShouldExitReturns(exitAt, exitContext) ==
    IF exitAt # 0 /\ exitContext.actionCount >= exitAt THEN "true" ELSE "false"

SyncConfigs ==
    [fn : {"createSimulation"}, agents : {SuppliedAgents},
     handlers : [Agents -> HandlerKinds], exitAt : ExitPolicies]
InitSync ==
    /\ EngineInit
    /\ call \in SyncConfigs
    /\ result = createSimulation(SuppliedAgents)

\* The frame of handler invocation h that has made n - 1 of its calls; the
\* frame pushed by the fan-out is the one with no call made.
SyncFrame(h, n) == [k |-> "handler", i |-> h, pc |-> n]
FrameAt(h, n) == IF n = 1 THEN HandlerFrame(h) ELSE SyncFrame(h, n)
BodyOf(h) == HandlerBody(call.handlers[inv[h].agent], inv[h].aid, inv[h].context)
HandlerAt(h, n) ==
    /\ stack # <<>> /\ Top = FrameAt(h, n)
    /\ inv[h].st = "running"
    /\ n <= Len(BodyOf(h)) + 1
CallsNext(h, n, method) == n <= Len(BodyOf(h)) /\ BodyOf(h)[n] = method
Proceed(stk, h, n) == Append(Pop(stk), SyncFrame(h, n + 1))

\* the handler calls context.updateGlobalState(s => s + 1)
SyncUpdateGlobalState(h, n) ==
    /\ HandlerAt(h, n) /\ CallsNext(h, n, "updateGlobalState")
    /\ globalState' = ApplyTransform(CurrentGlobalState(h))
    /\ globalUpdates' = globalUpdates + 1
    /\ stack' = Proceed(stack, h, n)
    /\ UNCHANGED <<agentInternalStates, actionQueue, isProcessing, actionCount,
                   hasExited, exitPromise, drains, inv, timers, timersSet,
                   dispatched, exitCalls, api, history>>

\* the handler calls context.updateInternalState(s => s + 1)
SyncUpdateInternalState(h, n) ==
    /\ HandlerAt(h, n) /\ CallsNext(h, n, "updateInternalState")
    /\ agentInternalStates' =
           [agentInternalStates EXCEPT ![ContextAgent(h)] = ApplyTransform(@)]
    /\ stack' = Proceed(stack, h, n)
    /\ UNCHANGED <<globalState, actionQueue, isProcessing, actionCount,
                   hasExited, exitPromise, drains, inv, timers, timersSet,
                   dispatched, exitCalls, globalUpdates, api, history>>

\* The handler calls context.dispatch(action); when MaxActions actions have
\* been dispatched the handler leaves the call out.
SyncContextDispatch(h, n) ==
    /\ HandlerAt(h, n) /\ CallsNext(h, n, "dispatch")
    /\ IF dispatched < MaxActions
       THEN /\ dispatched' = dispatched + 1
            /\ IF ContextMayStartDrain
               THEN LoopHead(Len(drains) + 1, Push(actionQueue, dispatched + 1),
                             Append(drains, [pc |-> "start", action |-> 0, next |-> 1,
                                             by |-> "context.dispatch"]),
                             Proceed(stack, h, n))
               ELSE /\ actionQueue' = Push(actionQueue, dispatched + 1)
                    /\ stack' = Proceed(stack, h, n)
                    /\ UNCHANGED <<isProcessing, drains, dequeued>>
       ELSE /\ stack' = Proceed(stack, h, n)
            /\ UNCHANGED <<dispatched, actionQueue, isProcessing, drains, dequeued>>
    /\ UNCHANGED <<globalState, agentInternalStates, actionCount, hasExited,
                   exitPromise, inv, timers, timersSet, exitCalls, globalUpdates,
                   api, barrier, evaluated, discarded, dropped>>

\* the handler throws: the exception leaves the fan-out loop and
\* processActionQueue
SyncThrow(h, n) ==
    /\ HandlerAt(h, n) /\ CallsNext(h, n, "throw")
    /\ Len(stack) >= 2
    /\ stack[Len(stack) - 1] = DrainFrame(inv[h].drain)
    /\ inv' = [inv EXCEPT ![h].st = "thrown", ![h].context = NoContext]
    /\ drains' = [drains EXCEPT ![inv[h].drain].pc = "failed"]
    /\ stack' = Pop(Pop(stack))
    /\ UNCHANGED <<engine, timers, timersSet, dispatched, exitCalls,
                   globalUpdates, api, history>>

\* the handler returns
SyncReturn(h, n) ==
    /\ HandlerAt(h, n) /\ n = Len(BodyOf(h)) + 1
    /\ inv' = [inv EXCEPT ![h].st = "fulfilled", ![h].context = NoContext]
    /\ stack' = Pop(stack)
    /\ UNCHANGED <<engine, drains, timers, timersSet, dispatched, exitCalls,
                   globalUpdates, api, history>>

\* Promise.all was fulfilled: the count is incremented and shouldExit is
\* called with the exit context
SyncAdvance(d) ==
    DrainAdvance(d, ShouldExitReturns(call.exitAt,
                        ExitContext(drains[d].action, NextCount(actionCount))))

\* `await simulation.dispatch(action)`: the application makes the call when the
\* awaitable of its previous call has completed
AwaitedDispatch ==
    /\ ActiveDrains = {}
    /\ PublicDispatch

\* the positions a handler can be at: before each call of the longest body
\* and after the last
Positions == 1..(Len(HandlerBody("relay", 2, NoContext)) + 1)
NextSync ==
    \/ \E d \in 1..Len(drains) : DrainInvoke(d)
    \/ \E d \in 1..Len(drains) : DrainAwaitAll(d)
    \/ \E h \in 1..Len(inv), n \in Positions : SyncUpdateGlobalState(h, n)
    \/ \E h \in 1..Len(inv), n \in Positions : SyncUpdateInternalState(h, n)
    \/ \E h \in 1..Len(inv), n \in Positions : SyncContextDispatch(h, n)
    \/ \E h \in 1..Len(inv), n \in Positions : SyncThrow(h, n)
    \/ \E h \in 1..Len(inv), n \in Positions : SyncReturn(h, n)
    \/ \E d \in 1..Len(drains) : SyncAdvance(d)
    \/ \E d \in 1..Len(drains) : DrainContinue(d)
    \/ AwaitedDispatch
SpecSync == InitSync /\ [][NextSync]_vars

(* ------------------- runs without failures, with fairness ------------- *)
\* The engine with handlers that never fail and a shouldExit that never
\* throws.  Fairness: the event loop runs every continuation that is ready
\* (the fan-out going on, a handler going on to its end, an awaited
\* operation completing, the continuation of a drain loop after its awaits)
\* and fires every timer that was set.
ExitResultsLive == {"true", "false"}
NextLive ==
    \/ \E d \in 1..Len(drains) : DrainInvoke(d)
    \/ \E d \in 1..Len(drains) : DrainAwaitAll(d)
    \/ \E h \in 1..Len(inv) : updateGlobalState(h)
    \/ \E h \in 1..Len(inv) : updateInternalState(h)
    \/ \E h \in 1..Len(inv) : HandlerContextDispatch(h)
    \/ \E h \in 1..Len(inv) : HandlerDispatch(h)
    \/ \E h \in 1..Len(inv) : HandlerSetTimer(h)
    \/ \E h \in 1..Len(inv) : HandlerReturn(h)
    \/ \E h \in 1..Len(inv) : HandlerSuspend(h)
    \/ \E h \in 1..Len(inv) : HandlerResume(h)
    \/ \E d \in 1..Len(drains), r \in ExitResultsLive : DrainAdvance(d, r)
    \/ \E d \in 1..Len(drains) : DrainContinue(d)
    \/ PublicDispatch
    \/ TimerDispatch
    \/ ExitCall
Fairness ==
    /\ WF_vars(\E d \in 1..Len(drains) : DrainInvoke(d))
    /\ WF_vars(\E d \in 1..Len(drains) : DrainAwaitAll(d))
    /\ WF_vars(\E h \in 1..Len(inv) : HandlerReturn(h))
    /\ WF_vars(\E h \in 1..Len(inv) : HandlerResume(h))
    /\ WF_vars(\E d \in 1..Len(drains), r \in ExitResultsLive : DrainAdvance(d, r))
    /\ WF_vars(\E d \in 1..Len(drains) : DrainContinue(d))
    /\ WF_vars(TimerDispatch)
SpecLive == Init /\ [][NextLive]_vars /\ Fairness

(* ------------- createSimulation on any list of definitions ------------ *)
\* The agent definitions a caller can put into config.agents: an id and an
\* initial internal state or none; ids may repeat in a list.
InitialStates == {Absent, 0, 1}
AgentDefs == [id : Agents, initialInternalState : InitialStates]
Configs == UNION {[1..n -> AgentDefs] : n \in 0..MaxDefs}

\* a call of createSimulation about to be made; the engine variables are
\* not part of this specification and stay as they are
InitCreate ==
    /\ EngineInit
    /\ call \in {[fn |-> "createSimulation", agents |-> c] : c \in Configs}
    /\ result = [st |-> "pending"]

CreateSimulation ==
    /\ call.fn = "createSimulation"
    /\ result.st = "pending"
    /\ result' = createSimulation(call.agents)
    /\ UNCHANGED <<call, engine, drains, inv, stack, timers, timersSet, dispatched,
                   exitCalls, globalUpdates, history>>

SpecCreate == InitCreate /\ [][CreateSimulation]_vars

(* ------------------ legacy turn-based API (lib/simulation.ts) --------- *)
\* Caller-supplied node actions: "increment" returns globalState + 1,
\* "negate" returns -globalState, and "tally" adds its internal state to the
\* global state and returns its internal state + 1.  A node that uses no
\* internal state has none (Absent) and its action returns none.
NodeKinds == {"increment", "negate", "tally"}
LegacyNode(kind) ==
    [action |-> kind, internalState |-> IF kind = "tally" THEN 0 ELSE Absent]
NodeAction(node, g) ==
    CASE node.action = "increment" -> [globalState |-> g + 1, internalState |-> Absent]
      [] node.action = "negate" -> [globalState |-> 0 - g, internalState |-> Absent]
      [] node.action = "tally" -> [globalState |-> g + node.internalState,
                                   internalState |-> node.internalState + 1]

\* executeTurn: the body of `for (let i = 0; i < updatedNodes.length; i++)`
\* from node i on, with the nodes and the global state so far
RECURSIVE TurnFrom(_, _, _)
TurnFrom(nodes, i, g) ==
    IF i > Len(nodes) THEN [nodes |-> nodes, state |-> g]
    ELSE LET r == NodeAction(nodes[i], g)
         IN TurnFrom(IF r.internalState # Absent
                     THEN [nodes EXCEPT ![i].internalState = r.internalState]
                     ELSE nodes,
                     i + 1, r.globalState)

executeTurn(s) ==
    LET r == TurnFrom(s.nodes, 1, s.state)
    IN [nodes |-> r.nodes, state |-> r.state, turn |-> s.turn + 1]

\* `config.maxTurns ?? 100`
DefaultMaxTurns == 100
EffectiveMaxTurns(config) ==
    IF config.maxTurns = Absent THEN DefaultMaxTurns ELSE config.maxTurns

\* variant: the loop runs while turn <= maxTurns
TurnsLeftInclusive(turn, maxTurns) == turn <= maxTurns

\* `while (currentState.turn < maxTurns)`
TurnsLeft(turn, maxTurns) == turn < maxTurns

createSimulationState(config) ==
    [nodes |-> config.nodes, state |-> config.initialState, turn |-> 0]

\* the configs a caller can give to runSimulation; maxTurns may be left out
LegacyInitialStates == {0, 1}
NodeLists == UNION {[1..n -> {LegacyNode(k) : k \in NodeKinds}] : n \in 0..MaxNodes}
LegacyConfigs ==
    [initialState : LegacyInitialStates, nodes : NodeLists,
     maxTurns : (0..MaxTurns) \cup {Absent}]

\* a call of runSimulation about to be made; the engine variables are not
\* part of this specification and stay as they are
InitLegacy ==
    /\ EngineInit
    /\ call \in {[fn |-> "runSimulation", config |-> c] : c \in LegacyConfigs}
    /\ result = [st |-> "pending"]

\* runSimulation up to its loop: the simulation state, the history holding
\* the initial state, and maxTurns
RunSimulation ==
    /\ call.fn = "runSimulation"
    /\ result.st = "pending"
    /\ result' = [st |-> "running",
                  cur |-> createSimulationState(call.config),
                  turnHistory |-> <<call.config.initialState>>,
                  maxTurns |-> EffectiveMaxTurns(call.config)]
    /\ UNCHANGED <<call, engine, drains, inv, stack, timers, timersSet, dispatched,
                   exitCalls, globalUpdates, history>>

\* one iteration of the while loop: `currentState = await
\* executeTurn(currentState); turnHistory.push(currentState.state)`
RunTurn ==
    /\ call.fn = "runSimulation"
    /\ result.st = "running"
    /\ TurnsLeft(result.cur.turn, result.maxTurns)
    /\ result' = [result EXCEPT
                      !.cur = executeTurn(result.cur),
                      !.turnHistory = Append(@, executeTurn(result.cur).state)]
    /\ UNCHANGED <<call, engine, drains, inv, stack, timers, timersSet, dispatched,
                   exitCalls, globalUpdates, history>>

\* the loop has ended: the result is built (finalNodeStates as the list of
\* the nodes that have an internal state) and returned
RunReturn ==
    /\ call.fn = "runSimulation"
    /\ result.st = "running"
    /\ ~TurnsLeft(result.cur.turn, result.maxTurns)
    /\ result' = [st |-> "returned",
                  finalState |-> result.cur.state,
                  finalNodeStates |->
                      SelectSeq(result.cur.nodes,
                                LAMBDA node : node.internalState # Absent),
                  turnHistory |-> result.turnHistory,
                  totalTurns |-> result.cur.turn]
    /\ UNCHANGED <<call, engine, drains, inv, stack, timers, timersSet, dispatched,
                   exitCalls, globalUpdates, history>>

NextLegacy == RunSimulation \/ RunTurn \/ RunReturn
SpecLegacy == InitLegacy /\ [][NextLegacy]_vars

\* the definitions whose handler the fan-out `for (const [agentId, agent] of
\* this.agents)` of an engine built as r invokes
FanOutHandlers(r) == {r.agents[i].value : i \in 1..Len(r.agents)}

(* ======================= properties of the engine ===================== *)
\* a step in which dispatch or context.dispatch is called with action a
DispatchStep == dispatched' = dispatched + 1
Submitted == dispatched + 1

\* status of the handler invocations made for action a
InvocationsFor(a) == {h \in 1..Len(inv) : inv[h].aid = a}
Unsettled(h) == inv[h].st \in {"running", "suspended"}

(* C1: at most one drain loop (processActionQueue) is active per engine at
   any moment, whatever the interleaving of public dispatch calls, of
   context.dispatch calls made in handlers and of context.dispatch calls made
   by timer callbacks; and a dispatch that arrives while a drain is active
   starts no drain and touches nothing but the queue, to which it appends
   its action (a public dispatch after exit is ignored and appends nothing). *)
AtMostOneDrain == Cardinality(ActiveDrains) <= 1
DispatchWhileDrainingOnlyAppends ==
    (DispatchStep /\ ActiveDrains # {}) =>
        /\ Len(drains') = Len(drains)
        /\ ActiveDrains' = ActiveDrains
        /\ \/ actionQueue' = Append(actionQueue, Submitted)
           \/ actionQueue' = actionQueue /\ Submitted \in dropped'
        /\ UNCHANGED <<globalState, agentInternalStates, isProcessing,
                       actionCount, hasExited, exitPromise, inv>>
C1_SingleDrain == [](AtMostOneDrain) /\ [][DispatchWhileDrainingOnlyAppends]_vars

\* two dispatches have arrived while the one drain was awaiting its handlers,
\* one of them from a timer callback
C1_Witness ==
    /\ Cardinality(ActiveDrains) = 1
    /\ \E d \in ActiveDrains : drains[d].pc = "awaitAll"
    /\ Len(actionQueue) = 2
    /\ timersSet = 1 /\ timers = 0

(* C2: every registered agent's handler is invoked exactly once for every
   dequeued action (as soon as the fan-out over the agents has ended), and
   each agent receives the actions in the order in which they were dequeued. *)
InFanOut(a) ==
    \E d \in 1..Len(drains) : drains[d].pc = "fanout" /\ drains[d].action = a
ReceivedBy(agent) ==
    LET idx == {h \in 1..Len(inv) : inv[h].agent = agent}
        F[n \in 0..Len(inv)] ==
            IF n = 0 THEN <<>>
            ELSE IF n \in idx THEN Append(F[n - 1], inv[n].aid) ELSE F[n - 1]
    IN F[Len(inv)]
IsPrefix(s, t) == Len(s) <= Len(t) /\ s = SubSeq(t, 1, Len(s))
C2_EveryAgentOnceInOrder ==
    /\ \A i \in 1..Len(dequeued), agent \in Agents :
          LET n == Cardinality({h \in InvocationsFor(dequeued[i]) : inv[h].agent = agent})
          IN IF InFanOut(dequeued[i]) THEN n <= 1 ELSE n = 1
    /\ \A agent \in Agents : IsPrefix(ReceivedBy(agent), dequeued)

(* C3: join barrier.  While a handler invocation for an action has not
   settled, that action is the last one dequeued (no handler for a later
   action has been started), it is not counted and shouldExit has not been
   evaluated for it; this holds in whatever order the suspended handlers
   resume. *)
C3_JoinBarrier ==
    \A h \in 1..Len(inv) :
        Unsettled(h) =>
            /\ dequeued # <<>> /\ inv[h].aid = Last(dequeued)
            /\ \A k \in 1..Len(inv) : inv[k].aid # inv[h].aid => ~Unsettled(k)
            /\ actionCount < Len(dequeued)
            /\ \A i \in 1..Len(evaluated) : evaluated[i].lastAction # inv[h].aid
            /\ inv[h].aid \notin Range(barrier)

\* the second agent's handler resumed and settled first; the first agent's
\* handler is still suspended and the action is held at the barrier
C3_Witness ==
    \E h, k \in 1..Len(inv) :
        /\ inv[h].aid = inv[k].aid /\ inv[h].agent = 1 /\ inv[k].agent = 2
        /\ inv[h].st = "suspended"
        /\ inv[k].st = "fulfilled" /\ ~inv[k].first
        /\ Len(actionQueue) > 0
        /\ actionCount = 0

(* C4: FIFO.  Actions are dequeued in the order in which they were enqueued
   (action values are numbered in dispatch order); an action enqueued during
   a handler goes behind everything already queued; no drain loop runs nested
   inside another or inside a handler; an action is dequeued only after the
   join barrier of the previous action; and an action that waited in the
   queue is dequeued by the drain loop that was already running, never by a
   new one. *)
Increasing(s) == \A i, j \in 1..Len(s) : i < j => s[i] < s[j]
FifoState ==
    /\ Increasing(dequeued \o actionQueue)
    /\ Cardinality({i \in 1..Len(stack) : stack[i].k = "drain"}) <= 1
    /\ \A i \in 1..Len(stack) : stack[i].k = "drain" => i = 1
    /\ \A i \in 1..(Len(dequeued) - 1) : dequeued[i] \in Range(barrier)
    /\ actionQueue # <<>> => \E d \in 1..Len(drains) : drains[d].pc # "done"
FifoStep ==
    \A a \in Range(actionQueue) :
        a \in Range(dequeued') =>
            \E d \in ActiveDrains : drains'[d].pc = "fanout" /\ drains'[d].action = a
C4_Fifo == [](FifoState) /\ [][FifoStep]_vars

\* two actions were enqueued by handlers during the fan-out of the first
\* action and wait behind it
C4_Witness ==
    /\ stack # <<>> /\ Top.k = "handler" /\ inv[Top.i].aid = 1
    /\ actionQueue = <<2, 3>>

\* ... and all three were processed in that order by the one drain loop
C4_WitnessDone == dequeued = <<1, 2, 3>> /\ barrier = <<1, 2, 3>> /\ Len(drains) = 1

(* C5: in the step in which shouldExit returns true, every action still
   queued is discarded, hasExited becomes true, the completion signal is
   resolved and the drain loop ends; no handler is ever invoked for a
   discarded action and it is never counted. *)
ExitStep == ~hasExited /\ hasExited'
ExitDiscards ==
    ExitStep =>
        /\ actionQueue' = <<>>
        /\ discarded' = discarded \cup Range(actionQueue)
        /\ exitPromise' = "resolved"
        /\ ActiveDrains' = {}
        /\ isProcessing' = FALSE
        /\ evaluated' # <<>> /\ Len(evaluated') = Len(evaluated) + 1
DiscardedNeverProcessed ==
    \A a \in discarded :
        /\ a \notin Range(dequeued)
        /\ a \notin Range(actionQueue)
        /\ InvocationsFor(a) = {}
        /\ a \notin Range(barrier)
C5_ExitDiscardsQueue == [](DiscardedNeverProcessed) /\ [][ExitDiscards]_vars

\* an exit has discarded two queued actions
C5_Witness == hasExited /\ Cardinality(discarded) = 2 /\ actionCount = 1

(* C6: once hasSimulationExited() is true, a call of the public dispatch
   returns without error and without awaiting anything, enqueues nothing,
   invokes no handler and changes neither the global state, an internal
   state nor getActionCount(). *)
PublicDispatchCall == PublicDispatch \/ \E h \in 1..Len(inv) : HandlerDispatch(h)
DispatchAfterExitIsNoOp ==
    (hasSimulationExited /\ PublicDispatchCall) =>
        /\ UNCHANGED <<globalState, agentInternalStates, actionQueue,
                       isProcessing, actionCount, hasExited, exitPromise>>
        /\ UNCHANGED <<drains, inv, stack, timers, dequeued>>
        /\ getActionCount' = getActionCount
C6_DispatchAfterExit == [][DispatchAfterExitIsNoOp]_vars

\* a public dispatch was made after the exit
C6_Witness == hasExited /\ dropped # {} /\ actionQueue = <<>>

(* C7: after hasExited has become true no handler is started again and the
   global state, the internal states and the processed-action count never
   change again, however an action is submitted afterwards. *)
C7_NothingAfterExit ==
    [][hasExited =>
          /\ Len(inv') = Len(inv)
          /\ UNCHANGED <<globalState, agentInternalStates, actionCount>>]_vars

(* C8: a context.dispatch made while no drain loop is active and the
   simulation has not exited enqueues the action and starts a drain loop,
   which at once dequeues it and starts the fan-out over the agents; every
   action that passed the join barrier was received by every agent, and the
   completion signal is resolved as soon as shouldExit has held, also when
   that was after such a later action. *)
LateContextDispatch ==
    /\ ~isProcessing /\ ~hasExited
    /\ TimerDispatch \/ \E h \in 1..Len(inv) : HandlerContextDispatch(h)
LateDispatchRestartsDrain ==
    LateContextDispatch =>
        /\ Len(drains') = Len(drains) + 1
        /\ drains'[Len(drains')].pc = "fanout"
        /\ drains'[Len(drains')].action = Submitted
        /\ isProcessing'
        /\ dequeued' = Append(dequeued, Submitted)
        /\ actionQueue' = actionQueue
ProcessedByAll ==
    \A i \in 1..Len(barrier), agent \in Agents :
        \E h \in InvocationsFor(barrier[i]) :
            inv[h].agent = agent /\ inv[h].st = "fulfilled"
C9_ExitAwaitables ==
    \A p \in exitCalls : (AwaitableState(p) = "resolved") <=> hasExited

\* exit() was called and the simulation has exited / has not yet exited
C9_Witness == exitCalls # {} /\ hasExited
C9_WitnessPending == exitCalls # {} /\ ~hasExited /\ isProcessing

(* C10: getActionCount() is the number of actions that have completed the
   join barrier (every agent's handler for the action fulfilled and the
   drain loop past its await); it never exceeds the number of dispatch calls
   made, and actions dropped after exit or discarded at exit are not
   counted. *)
Joined ==
    {a \in Range(dequeued) :
        /\ \A agent \in Agents :
              \E h \in InvocationsFor(a) : inv[h].agent = agent /\ inv[h].st = "fulfilled"
        /\ \A h \in InvocationsFor(a) : inv[h].st = "fulfilled"
        /\ ~\E d \in 1..Len(drains) :
              drains[d].action = a /\ drains[d].pc \in {"fanout", "awaitAll"}}
CountedAction == Last(barrier')
MonotoneStep ==
    /\ hasExited => hasExited'
    /\ actionCount' \in {actionCount, actionCount + 1}
    /\ actionCount' = actionCount + 1 <=> Len(barrier') = Len(barrier) + 1
    /\ actionCount' = actionCount + 1 =>
          /\ CountedAction \notin Range(barrier)
          /\ \A agent \in Agents :
                \E h \in InvocationsFor(CountedAction) :
                    inv[h].agent = agent /\ inv[h].st = "fulfilled"
    /\ DispatchStep => actionCount' = actionCount
C11_Monotone == [][MonotoneStep]_vars

\* two actions counted, then the exit, then a dispatch call that is ignored
C11_Witness == hasExited /\ actionCount = 2 /\ dropped = {3}

(* C12: shouldExit is invoked exactly once for each action that has been
   fully processed (every agent's handler fulfilled and the await passed),
   for no other action and never by a dispatch call; the exit context it
   receives has lastAction = the action just processed, actionCount = the
   count including that action, and globalState / agentStates = the engine's
   state at that moment, after the action's handlers have settled. *)
EvaluatedActions == {evaluated[i].lastAction : i \in 1..Len(evaluated)}
EvaluatedOncePerJoinedAction ==
    /\ EvaluatedActions = Joined
    /\ Len(evaluated) = Cardinality(Joined)
    /\ \A i \in 1..Len(evaluated) : evaluated[i].actionCount = i
EvaluationStep ==
    /\ DispatchStep => evaluated' = evaluated
    /\ evaluated' # evaluated =>
          /\ Len(evaluated') = Len(evaluated) + 1
          /\ SubSeq(evaluated', 1, Len(evaluated)) = evaluated
          /\ LET e == Last(evaluated')
             IN /\ e.lastAction = Last(dequeued)
                /\ \A h \in InvocationsFor(e.lastAction) : inv[h].st = "fulfilled"
                /\ e.actionCount = getActionCount'
                /\ e.globalState = getGlobalState /\ e.globalState = getGlobalState'
                /\ e.agentStates = getAllAgentStates
                /\ e.agentStates = getAllAgentStates'
HoldsContext(h) == inv[h].context # NoContext
C13_SameSnapshot ==
    \A h1, h2 \in 1..Len(inv) :
        (inv[h1].aid = inv[h2].aid /\ HoldsContext(h1) /\ HoldsContext(h2))
            => inv[h1].context.allAgents = inv[h2].context.allAgents

(* C14: a handler failure (a synchronous throw or a rejected promise) is
   never silently dropped: the drain loop that invoked the failed handler was
   started by a dispatch call that awaits it, and that call does not succeed;
   the engine does not invoke the failed handler again for that action. *)
Failed(h) == inv[h].st \in {"rejected", "thrown"}
C14_FailureSurfaces ==
    \A h \in 1..Len(inv) :
        Failed(h) =>
            /\ drains[inv[h].drain].by = "dispatch"
            /\ DrainPromise(inv[h].drain) # "resolved"
            /\ \A g \in InvocationsFor(inv[h].aid) :
                  inv[g].agent = inv[h].agent => g = h

(* C15: when one agent's handler fails for an action, the handlers of all
   other agents have still been invoked for that action and none is left
   unsettled at the moment the failure is raised (the drain loop ends with
   the error): the engine waits for all of them to settle first. *)
FailedByHandler(d) ==
    drains[d].pc = "failed" /\ \E h \in InvocationsOf(d) : Failed(h)
C15_SiblingsJoined ==
    \A d \in 1..Len(drains) :
        FailedByHandler(d) =>
            /\ \A agent \in Agents :
                  \E h \in InvocationsOf(d) : inv[h].agent = agent
            /\ \A h \in InvocationsOf(d) : ~Unsettled(h)

(* C16: if shouldExit throws, the error propagates out of the dispatch call
   that triggered that processing step, that is, the drain loop it ends was
   started by a dispatch call awaiting it, while the drain loops of earlier
   dispatch calls have completed normally; hasExited is false and no
   awaitable returned by exit() is resolved. *)
FailedByShouldExit(d) ==
    drains[d].pc = "failed" /\ drains[d].action \in EvaluatedActions
C16_ShouldExitThrows ==
    \A d \in 1..Len(drains) :
        FailedByShouldExit(d) =>
            /\ drains[d].by = "dispatch"
            /\ \A e \in 1..(d - 1) : DrainPromise(e) = "resolved"
            /\ ~hasSimulationExited
            /\ \A p \in exitCalls : AwaitableState(p) = "pending"

(* C17: each updateGlobalState call replaces the global state with the
   transform applied to the global state at the moment of the call: with the
   transform "add 1" and the initial global state 0 the global state equals
   the number of updateGlobalState calls made, whether the calls come from
   several handlers whose executions interleave or follow each other in one
   handler; no update is lost. *)
UpdateCall ==
    \E h \in 1..Len(inv) : updateGlobalState(h) \/ updateGlobalStateAgain(h)
NoLostUpdate == getGlobalState = globalUpdates
UpdateIsAtomic == UpdateCall => globalState' = ApplyTransform(globalState)
C17_UpdatesCompose == [](NoLostUpdate) /\ [][UpdateIsAtomic]_vars

\* action 1 is being processed: the first agent's handler added 1 before it
\* suspended, the second agent's handler, whose context was built after that
\* update, has added 1 too and is still running
C17_Witness ==
    /\ dequeued = <<1>> /\ globalUpdates = 2 /\ globalState = 2
    /\ \E h1, h2 \in 1..Len(inv) :
          /\ inv[h1].agent = 1 /\ inv[h1].st = "suspended"
          /\ inv[h2].agent = 2 /\ Running(h2)
          /\ inv[h1].context.globalState = 0
          /\ inv[h2].context.globalState = 1

\* both updates were made by one handler invocation, one after the other
C17_WitnessOneHandler ==
    /\ Len(inv) = 1 /\ Running(1) /\ globalUpdates = 2 /\ globalState = 2

(* C18: an updateInternalState call made through agent X's context replaces
   X's internal state by the transform of it and leaves the global state and
   every other agent's internal state unchanged; an updateGlobalState call
   leaves every internal state unchanged; and an agent's internal state is
   only ever replaced while a handler of that agent is running (no context
   replaces another agent's state). *)
InternalUpdateFrame ==
    \A h \in 1..Len(inv) :
        updateInternalState(h) =>
            /\ agentInternalStates'[inv[h].agent] =
                   ApplyTransform(agentInternalStates[inv[h].agent])
            /\ \A id \in Agents \ {inv[h].agent} :
                   agentInternalStates'[id] = agentInternalStates[id]
            /\ globalState' = globalState
GlobalUpdateFrame ==
    \A h \in 1..Len(inv) :
        updateGlobalState(h) => agentInternalStates' = agentInternalStates
OnlyOwnState ==
    \A id \in Agents :
        agentInternalStates'[id] # agentInternalStates[id] =>
            \E h \in 1..Len(inv) : Running(h) /\ inv[h].agent = id
C18_UpdateFrames ==
    [][InternalUpdateFrame /\ GlobalUpdateFrame /\ OnlyOwnState]_vars

\* the second agent, created without internal state, has replaced its own
\* state; the first agent's state and the global state are as created
C18_Witness ==
    /\ agentInternalStates[2] = 1
    /\ agentInternalStates[1] = initialInternalState(1)
    /\ globalState = 0

(* C19: for each action the handlers of all agents are started before the
   completion of any of them is awaited: a drain loop that is at its await
   has invoked every agent for the action; while the fan-out is under way it
   is on the call stack, so nothing (no continuation, no timer) runs between
   the start of one handler and the start of the next; hence whenever a
   handler is suspended outside the fan-out, every agent's handler has been
   started for that action (unless one of them threw synchronously, which
   ended the fan-out: C15). *)
StartedForAll(a) ==
    \A agent \in Agents : \E h \in InvocationsFor(a) : inv[h].agent = agent
FanOutBeforeAwait ==
    \A d \in 1..Len(drains) :
        /\ drains[d].pc = "awaitAll" => StartedForAll(drains[d].action)
        /\ drains[d].pc = "fanout" => DrainFrame(d) \in Range(stack)
SuspensionDoesNotBlock ==
    \A h \in 1..Len(inv) :
        (/\ inv[h].st = "suspended"
         /\ drains[inv[h].drain].action = inv[h].aid
         /\ drains[inv[h].drain].pc # "fanout"
         /\ ~\E g \in InvocationsFor(inv[h].aid) : inv[g].st = "thrown")
            => StartedForAll(inv[h].aid)
C19_FanOutConcurrent == FanOutBeforeAwait /\ SuspensionDoesNotBlock

\* the first agent's handler is suspended and has not been resumed; the
\* second agent's handler was started all the same and is running
C19_Witness ==
    \E h, k \in 1..Len(inv) :
        /\ inv[h].aid = inv[k].aid /\ inv[h].agent = 1 /\ inv[k].agent = 2
        /\ inv[h].st = "suspended"
        /\ Running(k) /\ inv[k].first

(* C20: immediately after createSimulation, before any dispatch call:
   getGlobalState() is the initial global state (0), each agent's internal
   state is its initial value where one was supplied and absent otherwise,
   hasSimulationExited() is false, getActionCount() is 0, the awaitable of
   exit() is unresolved, the queue is empty and no handler has been
   invoked. *)
NothingDispatched == dispatched = 0
C20_InitialState ==
    NothingDispatched =>
        /\ getGlobalState = 0
        /\ \A id \in Agents : getAgentInternalState(id) = initialInternalState(id)
        /\ ~hasSimulationExited
        /\ getActionCount = 0
        /\ AwaitableState(ExitAwaitable) = "pending"
        /\ \A p \in exitCalls : AwaitableState(p) = "pending"
        /\ actionQueue = <<>>
        /\ ~isProcessing
        /\ inv = <<>> /\ drains = <<>>

\* exit() has been called on the new simulation, nothing has been dispatched
C20_Witness == NothingDispatched /\ exitCalls # {} /\ inv = <<>>

(* C21: getAgentInternalState(id) for an id that was never registered
   returns the absent value in every engine state; getAllAgentStates(), and
   the agentStates of every exit context, has exactly one entry per
   registered agent and none for another id, and the entry of an agent that
   was created without internal state and has not set one is absent. *)
UnknownIds == {0, NumAgents + 1}
NeverSetState(id) ==
    initialInternalState(id) = Absent /\ agentInternalStates[id] = Absent
C21_AgentStateLookups ==
    /\ \A id \in UnknownIds : getAgentInternalState(id) = Absent
    /\ DOMAIN getAllAgentStates = Agents
    /\ \A id \in Agents :
          /\ getAllAgentStates[id] = getAgentInternalState(id)
          /\ NeverSetState(id) => getAllAgentStates[id] = Absent
    /\ \A i \in 1..Len(evaluated) : DOMAIN evaluated[i].agentStates = Agents

\* shouldExit was given an exit context in which the first agent's updated
\* state and the second agent's absent state both have their entry
C21_Witness ==
    /\ evaluated # <<>>
    /\ Last(evaluated).agentStates[1] = 1
    /\ Last(evaluated).agentStates[2] = Absent

(* C22: when createSimulation has returned, whatever the list of
   definitions (ids may repeat): every supplied definition's handler is
   among the handlers the fan-out invokes, and every registered agent's
   stored internal state is the initial internal state of the very
   definition whose handler it carries (absent if that definition has
   none): no agent combines one definition's handler with another's
   state. *)
NoHandlerLeftOut ==
    \A i \in 1..Len(call.agents) : i \in FanOutHandlers(result)
NoMergedAgent ==
    \A e \in 1..Len(result.agents) :
        MapGet(result.agentInternalStates, result.agents[e].key) =
            call.agents[result.agents[e].value].initialInternalState
C22_NoSilentMerge ==
    (call.fn = "createSimulation" /\ result.st = "returned") =>
        NoHandlerLeftOut /\ NoMergedAgent

(* C23: for every action the agents' handlers are started in the order in
   which the agents were supplied to createSimulation: the agents invoked so
   far for an action, in the order of their start, are the first ones of
   config.agents, none skipped, whatever the action and whatever state
   updates the agents have made. *)
SuppliedOrder == [i \in 1..Len(SuppliedAgents) |-> SuppliedAgents[i].id]
RECURSIVE StartedFrom(_, _)
StartedFrom(a, h) ==
    IF h > Len(inv) THEN <<>>
    ELSE IF inv[h].aid = a THEN <<inv[h].agent>> \o StartedFrom(a, h + 1)
    ELSE StartedFrom(a, h + 1)
C23_RegistrationOrder ==
    \A a \in Range(dequeued) : IsPrefix(StartedFrom(a, 1), SuppliedOrder)

\* two actions have gone through both agents, the second agent having set
\* its internal state meanwhile, and a third action has just begun
C23_Witness ==
    /\ [h \in 1..Len(inv) |-> inv[h].agent] = <<1, 2, 1, 2, 1>>
    /\ agentInternalStates[2] = 1

(* C24: the exit condition stops a cascade.  In a run without timers, where
   every action after the first comes from a dispatch made while the drain
   loop runs, once shouldExit has returned true at count N: the queue is
   empty, no drain loop is active and every processActionQueue call (so the
   initial dispatch call) has completed normally, the exit() awaitable is
   resolved, exactly N actions have been dequeued and processed, and no
   later step processes anything more. *)
CascadeExited == hasExited /\ timersSet = 0
StoppedAtExit ==
    CascadeExited =>
        /\ actionQueue = <<>>
        /\ ActiveDrains = {}
        /\ \A d \in 1..Len(drains) : DrainPromise(d) = "resolved"
        /\ AwaitableState(ExitAwaitable) = "resolved"
        /\ actionCount = Last(evaluated).actionCount
        /\ Len(dequeued) = actionCount /\ Len(barrier) = actionCount
        /\ \A h \in 1..Len(inv) : ~Unsettled(h)
StaysStopped ==
    CascadeExited =>
        /\ actionCount' = actionCount /\ dequeued' = dequeued /\ inv' = inv
        /\ actionQueue' = <<>> /\ drains' = drains
C24_ExitStopsCascade == [](StoppedAtExit) /\ [][StaysStopped]_vars

\* one dispatch call, the two further actions enqueued while its drain loop
\* ran; shouldExit returned true at count 2, the third action was discarded
\* and the awaitable an exit() call returned is resolved
C24_Witness ==
    /\ CascadeExited /\ Len(drains) = 1 /\ dispatched = 3 /\ dropped = {}
    /\ actionCount = 2 /\ discarded = {3}
    /\ exitCalls # {} /\ \A p \in exitCalls : AwaitableState(p) = "resolved"

(* C25: legacy runSimulation, for maxTurns a number of turns >= 0 or left
   out: the result has totalTurns = maxTurns (100 when left out), a
   turnHistory of maxTurns + 1 entries whose first entry is the initial
   state and whose entry k + 1 is the state after turn k, where a turn
   applies every node's action once, in node order, each to the state the
   previous one produced; finalState is the last entry. *)
\* the simulation state after node j of a turn that began in state s
RECURSIVE AfterNode(_, _)
AfterNode(s, j) ==
    IF j = 0 THEN s
    ELSE LET before == AfterNode(s, j - 1)
             r == NodeAction(before.nodes[j], before.state)
         IN [nodes |-> IF r.internalState = Absent THEN before.nodes
                       ELSE [before.nodes EXCEPT ![j].internalState = r.internalState],
             state |-> r.globalState]
\* the nodes when k turns have been made: a "tally" node has counted them
NodesAfter(config, k) ==
    [i \in 1..Len(config.nodes) |->
        IF config.nodes[i].action = "tally"
        THEN [config.nodes[i] EXCEPT !.internalState = k]
        ELSE config.nodes[i]]
\* the global state turn k produces from the global state g before it
TurnResult(config, k, g) ==
    AfterNode([nodes |-> NodesAfter(config, k - 1), state |-> g],
              Len(config.nodes)).state
ExpectedTurns(config) == IF config.maxTurns = Absent THEN 100 ELSE config.maxTurns
C25_LegacyRun ==
    (call.fn = "runSimulation" /\ result.st = "returned") =>
        LET n == ExpectedTurns(call.config)
        IN /\ result.totalTurns = n
           /\ Len(result.turnHistory) = n + 1
           /\ result.turnHistory[1] = call.config.initialState
           /\ \A k \in 1..n :
                 result.turnHistory[k + 1] =
                     TurnResult(call.config, k, result.turnHistory[k])
           /\ result.finalState = Last(result.turnHistory)

\* a run of two nodes without maxTurns has made the 100 turns
C25_Witness ==
    /\ call.fn = "runSimulation" /\ result.st = "returned"
    /\ call.config.maxTurns = Absent /\ Len(call.config.nodes) = 2
    /\ result.totalTurns = 100 /\ Len(result.turnHistory) = 101

(* C26: a public dispatch call made before exit while no drain loop is
   active starts a drain loop and its awaitable is that loop's: it completes
   only in a step that leaves the queue empty (drained, or cleared by the
   exit); a public dispatch call made while a drain loop is active only
   appends its action, which is not dequeued in that step, starts no loop,
   and returns at once: a handler that made the call goes on running. *)
DrainCompletes(d) == drains[d].pc # "done" /\ drains'[d].pc = "done"
IdleDispatchAwaitsDrain ==
    (PublicDispatchCall /\ ActiveDrains = {} /\ ~hasExited) =>
        /\ Len(drains') = Len(drains) + 1
        /\ Last(drains').by = "dispatch"
CompletesWhenDrained ==
    \A d \in 1..Len(drains) :
        (drains[d].by = "dispatch" /\ DrainCompletes(d)) => actionQueue' = <<>>
BusyDispatchReturnsAtOnce ==
    (PublicDispatchCall /\ ActiveDrains # {} /\ ~hasExited) =>
        /\ drains' = drains
        /\ actionQueue' = Append(actionQueue, Submitted)
        /\ Submitted \notin Range(dequeued')
        /\ \A h \in 1..Len(inv) : Running(h) => (inv' = inv /\ stack' = stack)
C26_DispatchAwaitable ==
    [][IdleDispatchAwaitsDrain /\ CompletesWhenDrained /\ BusyDispatchReturnsAtOnce]_vars

(* C27: the globalState and internalState fields of a context are fixed when
   the context is built: in the step that starts an agent's handler they are
   the engine's live global state and that agent's live internal state, and
   in no later step, whoever updates the state, do the fields of a context
   still in use change. *)
HandlerStarts == Len(inv') = Len(inv) + 1
ContextBuiltFromLiveState ==
    HandlerStarts =>
        LET h == Last(inv')
        IN /\ h.context.globalState = getGlobalState
           /\ h.context.internalState = getAgentInternalState(h.agent)
ContextFieldsFixed ==
    \A h \in 1..Len(inv) :
        (HoldsContext(h) /\ Unsettled(h) /\ inv'[h].st \in {"running", "suspended"}) =>
            /\ inv'[h].context.globalState = inv[h].context.globalState
            /\ inv'[h].context.internalState = inv[h].context.internalState
C27_ContextSnapshot == [][ContextBuiltFromLiveState /\ ContextFieldsFixed]_vars

\* the first agent's handler, suspended, still holds the global state 0 it
\* was started with; the global state is 1 by now and the second agent's
\* handler, started after the update, holds 1
C27_Witness ==
    \E h, k \in 1..Len(inv) :
        /\ inv[h].aid = inv[k].aid /\ inv[h].agent = 1 /\ inv[k].agent = 2
        /\ inv[h].st = "suspended" /\ Running(k)
        /\ inv[h].context.globalState = 0 /\ inv[k].context.globalState = 1
        /\ globalState = 1

(* C28: context.allAgents has exactly one entry {id, internalState} for
   every registered agent, in registration order, the reading agent itself
   included; the internalState of an entry is that agent's internal state
   when the context was built, absent for an agent that has none. *)
AllAgentsOf(h) == inv[h].context.allAgents
OneEntryPerAgent ==
    \A h \in 1..Len(inv) :
        HoldsContext(h) =>
            /\ [i \in 1..Len(AllAgentsOf(h)) |-> AllAgentsOf(h)[i].id] = SuppliedOrder
            /\ \E i \in 1..Len(AllAgentsOf(h)) : AllAgentsOf(h)[i].id = inv[h].agent
EntriesFromLiveState ==
    HandlerStarts =>
        LET aa == Last(inv').context.allAgents
        IN \A i \in 1..Len(aa) : aa[i].internalState = getAgentInternalState(aa[i].id)
C28_AllAgentsEntries == [](OneEntryPerAgent) /\ [][EntriesFromLiveState]_vars

\* the handler of the second agent, which has no internal state, is running
\* and its allAgents lists the first agent with its state and itself without
C28_Witness ==
    \E h \in 1..Len(inv) :
        /\ Running(h) /\ inv[h].agent = 2
        /\ AllAgentsOf(h) = <<[id |-> 1, internalState |-> 0],
                              [id |-> 2, internalState |-> Absent]>>

(* C29: under fairness, when no handler fails and shouldExit never throws,
   every action that is in the queue before exit - put there by the public
   dispatch or by a context.dispatch, from a handler or from a timer
   callback - is eventually processed by all agents or discarded by an exit,
   and a non-empty queue is eventually empty again: it is never left
   non-empty forever. *)
ProcessedByAllAgents(a) ==
    \A agent \in Agents :
        \E h \in InvocationsFor(a) : inv[h].agent = agent /\ inv[h].st = "fulfilled"
QueuedBeforeExit(a) == a \in Range(actionQueue) /\ ~hasExited
C29_NoStuckQueue ==
    /\ \A a \in 1..MaxActions :
          QueuedBeforeExit(a) ~> (ProcessedByAllAgents(a) \/ a \in discarded)
    /\ (actionQueue # <<>>) ~> (actionQueue = <<>>)

\* the first drain loop had ended when a timer callback dispatched action 2;
\* a new drain loop took it through all agents and ended as well
C29_Witness ==
    /\ Len(drains) = 2 /\ drains[2].by = "context.dispatch"
    /\ drains[2].action = 2 /\ drains[2].pc = "done"
    /\ ProcessedByAllAgents(2) /\ ~hasExited /\ actionQueue = <<>>

(* C30: when an action has been processed without exit and further actions
   are queued, the drain loop yields once before it dequeues the next
   action: the step that counts the action dequeues nothing and starts no
   handler, and the step that leaves the yield dequeues the next action.  A
   timer that is due can run during the yield, and its context.dispatch
   only enqueues.  When the queue is empty after the action, the loop ends
   without yielding. *)
Yielding == {d \in 1..Len(drains) : drains[d].pc = "yield"}
ActionCounted(d) ==
    /\ drains[d].pc = "awaitAll"
    /\ drains'[d].pc \notin {"awaitAll", "failed"}
YieldsIffMoreQueued ==
    \A d \in 1..Len(drains) :
        ActionCounted(d) =>
            /\ dequeued' = dequeued /\ Len(inv') = Len(inv)
            /\ actionQueue' # <<>> => drains'[d].pc = "yield" /\ isProcessing'
            /\ actionQueue = <<>> => drains'[d].pc = "done" /\ ~isProcessing'
YieldsOnce ==
    \A d \in Yielding :
        drains'[d].pc # "yield" =>
            /\ drains'[d].pc = "fanout"
            /\ drains'[d].action = Head(actionQueue)
            /\ dequeued' = Append(dequeued, Head(actionQueue))
TimerCanRunAtYield ==
    (Yielding # {} /\ timers > 0 /\ dispatched < MaxActions) => ENABLED TimerDispatch
TimerAtYieldEnqueues ==
    (Yielding # {} /\ timers' = timers - 1) =>
        /\ actionQueue' = Append(actionQueue, dispatched + 1)
        /\ drains' = drains /\ inv' = inv
C30_YieldOnce ==
    /\ [](TimerCanRunAtYield)
    /\ [][YieldsIffMoreQueued /\ YieldsOnce /\ TimerAtYieldEnqueues]_vars

\* No handler of action 1 awaited anything, so the timer one of them set
\* cannot have fired before the loop yielded: it fired during the yield and
\* enqueued its action, and no handler of the next action has started.
C30_Witness ==
    /\ Yielding = {1} /\ Len(inv) = NumAgents
    /\ \A h \in 1..Len(inv) : inv[h].first
    /\ timersSet = 1 /\ timers = 0
    /\ Len(actionQueue) = 2 /\ ~hasExited

(* C31: hasExited becomes true only in the step in which shouldExit has
   just returned true for an action whose handlers all settled, and in that
   step the promise of exit() is resolved; no other step - a dispatch, a
   context.dispatch, a state update, exit(), a failure of a handler or of
   shouldExit, a loop that ends on an empty queue - sets hasExited or
   resolves that promise, and hasExited is never cleared. *)
ExitDecided ==
    \E d \in 1..Len(drains) :
        /\ drains[d].pc = "awaitAll" /\ AllSettled(d) = "fulfilled"
        /\ DrainAdvance(d, "true")
ExitOnlyDecided ==
    /\ (hasExited' # hasExited) => (ExitDecided /\ hasExited')
    /\ (exitPromise' # exitPromise) => (ExitDecided /\ exitPromise' = "resolved")
C31_ExitOnlyByShouldExit == [][ExitOnlyDecided]_vars

\* the simulation has exited in a run in which exit() was called and a
\* handler failure aborted a drain loop
C31_Witness ==
    /\ hasExited /\ exitPromise = "resolved" /\ exitCalls # {}
    /\ \E d \in 1..Len(drains) : drains[d].pc = "failed"
    /\ \E h \in 1..Len(inv) : Failed(h)

(* C32: a call of getGlobalState, getAgentInternalState, getAllAgentStates,
   getActionCount or hasSimulationExited, and a call of exit(), leaves the
   queue, the global state, the internal states, the count, the exit flag
   and the drain-in-progress flag as they are (and with them the drain
   loops, the handler invocations and the timers); the queries return the
   current values; and the queries can be called in every engine state,
   exit() whenever the application has control - while a drain loop is
   running and after exit as well. *)
QueryStep == call' # call \/ result' # result
ExitCallStep == exitCalls' # exitCalls
QueriesArePure ==
    (QueryStep \/ ExitCallStep) =>
        /\ UNCHANGED engine
        /\ UNCHANGED <<drains, inv, stack, timers, timersSet, dispatched, history>>
QueryReturnsCurrent ==
    QueryStep =>
        /\ call'.fn = "queries" /\ result'.st = "returned"
        /\ result'.value = QueryResults
QueriesCallable ==
    /\ ENABLED QueryCalls
    /\ Outside => ENABLED ExitCall
C32_QueriesPure ==
    /\ [](QueriesCallable)
    /\ [][QueriesArePure /\ QueryReturnsCurrent]_vars

\* after the exit, while a drain loop started by a later dispatch runs a
\* handler, the queries were called and hasSimulationExited() returned true
C32_Witness ==
    /\ call.fn = "queries" /\ result.value = QueryResults
    /\ result.value.hasSimulationExited
    /\ ActiveDrains # {} /\ stack # <<>> /\ exitCalls # {}

(* C33: whenever the drain-in-progress flag is false and control is outside
   the engine, the action queue is empty.  The flag is cleared only in a
   step that leaves the queue empty (the loop found it empty, or cleared it
   on exit), and every dispatch or context.dispatch that enqueues while the
   flag is false starts a drain loop in the same step, which sets the flag
   and dequeues the action. *)
IdleQueueEmpty == (~isProcessing /\ Outside) => actionQueue = <<>>
FlagClearedOnEmptyQueue ==
    (isProcessing /\ ~isProcessing') => actionQueue' = <<>>
EnqueueWhenIdleStartsDrain ==
    (DispatchStep /\ ~isProcessing /\ Submitted \notin dropped') =>
        /\ Len(drains') = Len(drains) + 1
        /\ drains'[Len(drains')].action = Submitted
        /\ dequeued' = Append(dequeued, Submitted)
        /\ isProcessing'
C33_IdleQueueEmpty ==
    /\ [](IdleQueueEmpty)
    /\ [][FlagClearedOnEmptyQueue /\ EnqueueWhenIdleStartsDrain]_vars

\* control is outside, the flag is false and the queue is empty: a drain
\* loop had found the queue empty, and a second loop, started by a dispatch
\* made while the flag was false, has ended with the exit; three actions
\* were processed and none was discarded
C33_Witness ==
    /\ Outside /\ ~isProcessing /\ actionQueue = <<>>
    /\ Len(drains) = 2 /\ drains[1].pc = "done" /\ drains[2].pc = "done"
    /\ Len(barrier) = 3 /\ hasExited /\ discarded = {}

(* C34: once a drain loop has been aborted (by a handler failure or by
   shouldExit throwing), the drain-in-progress flag is set and stays set;
   every later dispatch and context.dispatch appends its action to the queue
   and returns without starting a drain loop; no handler is started again;
   getActionCount() and hasSimulationExited() do not change again; and the
   promise of exit() is pending and never resolves. *)
Aborted == \E d \in 1..Len(drains) : drains[d].pc = "failed"
StuckAfterAbort ==
    Aborted =>
        /\ isProcessing
        /\ exitPromise = "pending"
        /\ \A p \in exitCalls : AwaitableState(p) = "pending"
NothingRunsAfterAbort ==
    Aborted =>
        /\ DispatchStep =>
              /\ actionQueue' = Append(actionQueue, Submitted)
              /\ drains' = drains /\ stack' = stack
        /\ Len(inv') = Len(inv)
        /\ getActionCount' = getActionCount
        /\ hasSimulationExited' = hasSimulationExited
C34_StuckAfterAbort == [](StuckAfterAbort) /\ [][NothingRunsAfterAbort]_vars

\* The same for a drain loop aborted before the simulation has exited; a
\* loop aborted after the exit was started by a context.dispatch (see C7).
AbortedBeforeExit == Aborted /\ ~hasExited
StuckAfterAbortBeforeExit ==
    /\ [](AbortedBeforeExit => StuckAfterAbort)
    /\ [][AbortedBeforeExit => NothingRunsAfterAbort]_vars

(* C35: nothing is rolled back on failure.  In the step in which shouldExit
   throws for an action, the count is incremented for that action and the
   global and internal states are left as the action's handlers made them.
   In the step in which a handler failure aborts the loop, the global and
   internal states and the count are left as they are; the action is no
   longer in the queue, it is never counted and shouldExit is never
   evaluated for it.  In both cases every update made to the global state
   is still applied. *)
AbortStep(d) == drains[d].pc # "failed" /\ drains'[d].pc = "failed"
ShouldExitThrew(d) == AbortStep(d) /\ evaluated' # evaluated
HandlerFailureAborts(d) == AbortStep(d) /\ evaluated' = evaluated
NoRollbackStep ==
    \A d \in 1..Len(drains) :
        /\ ShouldExitThrew(d) =>
              /\ getActionCount' = getActionCount + 1
              /\ Last(barrier') = drains[d].action
              /\ UNCHANGED <<globalState, agentInternalStates>>
        /\ HandlerFailureAborts(d) =>
              /\ getActionCount' = getActionCount
              /\ UNCHANGED <<globalState, agentInternalStates, actionQueue,
                             barrier>>
NoRollbackState ==
    \A d \in 1..Len(drains) :
        /\ drains[d].pc = "failed" =>
              /\ getGlobalState = globalUpdates
              /\ drains[d].action \in Range(dequeued)
              /\ drains[d].action \notin Range(actionQueue)
        /\ FailedByShouldExit(d) =>
              /\ drains[d].action \in Range(barrier)
              /\ getActionCount = Len(barrier)
        /\ (drains[d].pc = "failed" /\ ~FailedByShouldExit(d)) =>
              /\ FailedByHandler(d)
              /\ drains[d].action \notin Range(barrier)
              /\ drains[d].action \notin EvaluatedActions
              /\ getActionCount = Len(barrier)
C35_NoRollback == [](NoRollbackState) /\ [][NoRollbackStep]_vars

\* the first agent's handler updated the global state for action 1 and
\* returned, the second agent's handler failed: the loop is aborted, the
\* update is applied, nothing was counted
C35_Witness ==
    /\ Len(drains) = 1 /\ FailedByHandler(1) /\ drains[1].action = 1
    /\ \E h \in InvocationsOf(1) : inv[h].agent = 1 /\ inv[h].st = "fulfilled"
    /\ \E h \in InvocationsOf(1) : inv[h].agent = 2 /\ Failed(h)
    /\ globalUpdates = 1 /\ getGlobalState = 1 /\ getActionCount = 0

(* C36: determinism.  With synchronous handlers that are functions of
   (action, context), a shouldExit that is a function of its exit context
   and dispatch calls that are awaited one after the other, what an engine
   does is a function of its configuration: in every run the sequence of
   processed actions and the sequence of handler invocations are an initial
   part of the sequences that a sequential reading of the configuration
   gives, and when the calls have been made and have completed, those
   sequences, the global state, the internal states, the action count, the
   exit flag, the queue and the drain-in-progress flag are the ones it
   gives.  Two instances built from the same configuration therefore go
   through the same sequences and end in the same state. *)
Plus1(v) == IF v = Absent THEN 1 ELSE v + 1
RECURSIVE AfterBody(_, _, _, _)
AfterBody(e, body, i, agent) ==
    IF i > Len(body) THEN e
    ELSE IF body[i] = "throw" THEN [e EXCEPT !.failed = TRUE]
    ELSE IF body[i] = "updateGlobalState"
         THEN AfterBody([e EXCEPT !.g = Plus1(@)], body, i + 1, agent)
    ELSE IF body[i] = "updateInternalState"
         THEN AfterBody([e EXCEPT !.s[agent] = Plus1(@)], body, i + 1, agent)
    ELSE IF e.n < MaxActions
         THEN AfterBody([e EXCEPT !.n = @ + 1, !.q = Append(@, e.n + 1)],
                        body, i + 1, agent)
    ELSE AfterBody(e, body, i + 1, agent)
RECURSIVE AfterFanOut(_, _, _, _)
AfterFanOut(c, e, a, agent) ==
    IF agent > NumAgents THEN e
    ELSE LET context == [globalState |-> e.g, internalState |-> e.s[agent]]
             body == HandlerBody(c.handlers[agent], a, context)
             e1 == AfterBody([e EXCEPT !.runs = Append(@, <<a, agent>>)],
                             body, 1, agent)
         IN IF e1.failed THEN e1 ELSE AfterFanOut(c, e1, a, agent + 1)
RECURSIVE AfterDrain(_, _)
AfterDrain(c, e) ==
    IF e.q = <<>> THEN [e EXCEPT !.busy = FALSE]
    ELSE LET a == Head(e.q)
             e1 == AfterFanOut(c, [e EXCEPT !.q = Tail(@), !.deq = Append(@, a)], a, 1)
             e2 == [e1 EXCEPT !.count = @ + 1]
         IN IF e1.failed THEN e1
            ELSE IF c.exitAt # 0 /\ e2.count >= c.exitAt
                 THEN [e2 EXCEPT !.q = <<>>, !.exited = TRUE, !.busy = FALSE]
                 ELSE AfterDrain(c, e2)
AfterDispatch(c, e) ==
    LET e1 == [e EXCEPT !.n = @ + 1]
        e2 == [e1 EXCEPT !.q = Append(@, e1.n)]
    IN IF e.exited THEN e1
       ELSE IF e.busy THEN e2
       ELSE AfterDrain(c, [e2 EXCEPT !.busy = TRUE])
RECURSIVE AfterCalls(_, _)
AfterCalls(c, e) ==
    IF e.n >= MaxActions THEN e ELSE AfterCalls(c, AfterDispatch(c, e))
Expected(c) ==
    AfterCalls(c, [g |-> 0, s |-> [i \in Agents |-> initialInternalState(i)],
                   q |-> <<>>, busy |-> FALSE, count |-> 0, exited |-> FALSE,
                   n |-> 0, deq |-> <<>>, runs |-> <<>>, failed |-> FALSE])

HandlerInvocations == [h \in 1..Len(inv) |-> <<inv[h].aid, inv[h].agent>>]
CallsCompleted == dispatched = MaxActions /\ Outside /\ ActiveDrains = {}
C36_Deterministic ==
    LET x == Expected(call)
    IN /\ IsPrefix(dequeued, x.deq)
       /\ IsPrefix(HandlerInvocations, x.runs)
       /\ CallsCompleted =>
             /\ dequeued = x.deq /\ HandlerInvocations = x.runs
             /\ getGlobalState = x.g
             /\ getAllAgentStates = x.s
             /\ getActionCount = x.count
             /\ hasSimulationExited = x.exited
             /\ actionQueue = x.q /\ isProcessing = x.busy

\* the cascade of the test: the first agent's handler dispatched action 2
\* for action 1, the second agent's handler dispatched action 3 and updated
\* the global state for action 2; the three actions went to both agents
C36_Witness ==
    /\ call.handlers[1] = "cascade" /\ call.handlers[2] = "relay"
    /\ call.exitAt = 0 /\ CallsCompleted
    /\ dequeued = <<1, 2, 3>> /\ Len(inv) = 6
    /\ getGlobalState = 1 /\ getActionCount = 3 /\ ~hasSimulationExited

====
